---- MODULE Spec2Model ----
(***************************************************************************)
(* A model of typed_config.py: the table of cast functions keyed by type   *)
(* annotation (default_casts), the optional() decorator, is_optional(),    *)
(* and the populate loop of TypedConfig.__init__, which reads every        *)
(* annotated name through decouple.config.                                 *)
(*                                                                         *)
(* Strings are sequences of one-character strings.  Python values are      *)
(* tagged tuples:                                                          *)
(*   <<"none">>            None                                            *)
(*   <<"str", chars>>      str                                             *)
(*   <<"bytes", ints>>     bytes                                           *)
(*   <<"int", n>>          int                                             *)
(*   <<"bool", b>>         bool                                            *)
(*   <<"float", ip, frac>> the float ip.frac (frac without trailing zeros) *)
(*   <<"complex", re, im>> complex, re and im being <<ip, frac>>           *)
(*   <<"path", parts>>     pathlib.Path                                    *)
(*   <<"list", values>>    list                                            *)
(*   <<"err", class>>      the call raised an exception of that class      *)
(***************************************************************************)
EXTENDS Integers, Sequences, FiniteSets, TLC

VARIABLES
  default_casts,   \* the module-level dict default_casts
  annotations,     \* cls.__annotations__: sequence of <<name, type_>>
  class_attrs,     \* literal assignments of the class body: name -> value
  environ,         \* the backing store behind decouple.config: name -> str
  pc,              \* "idle", "loop", "done", "failed", "cast"
  casts_arg,       \* the casts argument of the running __init__
  ignored_names,   \* the ignored_names argument of the running __init__
  casts,           \* the local dict casts of the running __init__
  idx,             \* position of the populate loop in annotations
  attrs,           \* instance attributes set so far: name -> value
  raised,          \* the exception __init__ ended with, or NoError
  fetched,         \* names handed to decouple.config, in call order
  used,            \* name -> cast function resolved for it (casts[type_])
  sets,            \* name -> number of setattr calls on the instance
  runs,            \* number of __init__ calls started on this class
  overridden,      \* type tags some earlier __init__ call was given casts for
  probe            \* a direct application of one cast of the table

vars == <<default_casts, annotations, class_attrs, environ, pc, casts_arg,
          ignored_names, casts, idx, attrs, raised, fetched, used, sets,
          runs, overridden, probe>>

\* Bounds of the model
MaxFields == 2   \* annotated names of a class
MaxRuns == 2     \* constructor calls on one class

-----------------------------------------------------------------------------
(* Characters and strings                                                  *)

Digits == {"0", "1", "2", "3", "4", "5", "6", "7", "8", "9"}

\* The characters raw strings of the model are made of.  None of them is a
\* quote, a backslash or "#", which shlex (inside decouple.Csv) treats
\* specially, and no string over them spells an exponent, "inf" or "nan".
Alphabet == Digits \cup {".", ",", " ", "+", "j", "o", "n", "O", "N", "h", "i"}

Whitespace == {" "}

DigitVal == [d \in Digits |->
  CASE d = "0" -> 0 [] d = "1" -> 1 [] d = "2" -> 2 [] d = "3" -> 3
    [] d = "4" -> 4 [] d = "5" -> 5 [] d = "6" -> 6 [] d = "7" -> 7
    [] d = "8" -> 8 [] d = "9" -> 9]

DigitChar == <<"0", "1", "2", "3", "4", "5", "6", "7", "8", "9">>

\* ord() of the characters of Alphabet (UTF-8 encodes each as this one byte).
Ord(c) ==
  CASE c \in Digits -> 48 + DigitVal[c]
    [] c = " " -> 32 [] c = "+" -> 43 [] c = "," -> 44 [] c = "." -> 46
    [] c = "N" -> 78 [] c = "O" -> 79 [] c = "h" -> 104 [] c = "i" -> 105
    [] c = "j" -> 106 [] c = "n" -> 110 [] c = "o" -> 111

Chr(b) == CHOOSE c \in Alphabet : Ord(c) = b

\* str.lower() on the characters that reach it.
Lower(c) ==
  CASE c = "O" -> "o" [] c = "N" -> "n" [] c = "T" -> "t" [] c = "F" -> "f"
    [] OTHER -> c

LowerStr(s) == [k \in 1..Len(s) |-> Lower(s[k])]

RECURSIVE LStrip(_)
LStrip(s) ==
  IF s # <<>> /\ Head(s) \in Whitespace THEN LStrip(Tail(s)) ELSE s

RECURSIVE RStrip(_)
RStrip(s) ==
  IF s # <<>> /\ s[Len(s)] \in Whitespace
  THEN RStrip(SubSeq(s, 1, Len(s) - 1)) ELSE s

\* str.strip()
Strip(s) == RStrip(LStrip(s))

AllDigits(s) == \A k \in 1..Len(s) : s[k] \in Digits

RECURSIVE DigitsValue(_)
DigitsValue(s) ==
  IF s = <<>> THEN 0
  ELSE 10 * DigitsValue(SubSeq(s, 1, Len(s) - 1)) + DigitVal[s[Len(s)]]

RECURSIVE NatChars(_)
NatChars(n) ==
  IF n < 10 THEN <<DigitChar[n + 1]>>
  ELSE Append(NatChars(n \div 10), DigitChar[(n % 10) + 1])

Range(s) == {s[k] : k \in 1..Len(s)}

IndexOf(s, c) ==
  IF \E k \in 1..Len(s) : s[k] = c
  THEN CHOOSE k \in 1..Len(s) : s[k] = c /\ \A m \in 1..(k - 1) : s[m] # c
  ELSE 0

-----------------------------------------------------------------------------
(* Python values                                                           *)

None == <<"none">>
StrV(s) == <<"str", s>>
BytesV(b) == <<"bytes", b>>
IntV(n) == <<"int", n>>
BoolV(b) == <<"bool", b>>
FloatV(ip, frac) == <<"float", ip, frac>>
ComplexV(re, im) == <<"complex", re, im>>
PathV(parts) == <<"path", parts>>
ListV(vs) == <<"list", vs>>
Err(class) == <<"err", class>>

Kind(v) == v[1]
IsErr(v) == Kind(v) = "err"

\* Python truthiness, as tested by "if s" in optional.maybe.
Falsy(v) ==
  CASE Kind(v) = "none" -> TRUE
    [] Kind(v) \in {"str", "bytes", "list"} -> v[2] = <<>>
    [] Kind(v) = "int" -> v[2] = 0
    [] Kind(v) = "bool" -> ~v[2]
    [] Kind(v) = "float" -> v[2] = 0 /\ v[3] = <<>>
    [] Kind(v) = "complex" -> v[2] = <<0, <<>>>> /\ v[3] = <<0, <<>>>>
    [] OTHER -> FALSE

\* str(v) for the values a cast can be handed: a str of the backing store,
\* a literal of the class body, or None.
Str(v) ==
  CASE Kind(v) = "str" -> v[2]
    [] Kind(v) = "none" -> <<"N", "o", "n", "e">>
    [] Kind(v) = "int" ->
         IF v[2] < 0 THEN <<"-">> \o NatChars(0 - v[2]) ELSE NatChars(v[2])
    [] Kind(v) = "bool" ->
         IF v[2] THEN <<"T", "r", "u", "e">> ELSE <<"F", "a", "l", "s", "e">>
    [] Kind(v) = "float" ->
         NatChars(v[2]) \o <<".">> \o (IF v[3] = <<>> THEN <<"0">> ELSE v[3])
    [] Kind(v) = "bytes" ->
         <<"b", "'">> \o [k \in 1..Len(v[2]) |-> Chr(v[2][k])] \o <<"'">>

-----------------------------------------------------------------------------
(* The cast functions default_casts is built from, and the casts callers   *)
(* register.  Each takes a value and returns a value or Err(class).        *)

\* An unsigned decimal literal: digits with at most one ".", and a digit.
IsUFloat(s) ==
  /\ \A k \in 1..Len(s) : s[k] \in Digits \cup {"."}
  /\ Cardinality({k \in 1..Len(s) : s[k] = "."}) <= 1
  /\ \E k \in 1..Len(s) : s[k] \in Digits

RECURSIVE DropTrailingZeros(_)
DropTrailingZeros(s) ==
  IF s # <<>> /\ s[Len(s)] = "0"
  THEN DropTrailingZeros(SubSeq(s, 1, Len(s) - 1)) ELSE s

\* <<integer part, fraction digits>> of an unsigned decimal literal.
UFloatVal(s) ==
  LET dot == IndexOf(s, ".") IN
    IF dot = 0 THEN <<DigitsValue(s), <<>>>>
    ELSE <<DigitsValue(SubSeq(s, 1, dot - 1)),
           DropTrailingZeros(SubSeq(s, dot + 1, Len(s)))>>

DropSign(s) == IF s # <<>> /\ Head(s) = "+" THEN Tail(s) ELSE s

\* the text of a str or of a bytes
Text(v) == IF Kind(v) = "bytes" THEN [k \in 1..Len(v[2]) |-> Chr(v[2][k])] ELSE v[2]

\* int(v)
cast_int(v) ==
  CASE Kind(v) \in {"str", "bytes"} ->
         LET t == DropSign(Strip(Text(v))) IN
           IF t # <<>> /\ AllDigits(t) THEN IntV(DigitsValue(t))
           ELSE Err("ValueError")
    [] Kind(v) = "int" -> v
    [] Kind(v) = "bool" -> IntV(IF v[2] THEN 1 ELSE 0)
    [] Kind(v) = "float" -> IntV(v[2])
    [] OTHER -> Err("TypeError")

\* float(v)
cast_float(v) ==
  CASE Kind(v) \in {"str", "bytes"} ->
         LET t == DropSign(Strip(Text(v))) IN
           IF IsUFloat(t) THEN FloatV(UFloatVal(t)[1], UFloatVal(t)[2])
           ELSE Err("ValueError")
    [] Kind(v) = "int" -> FloatV(v[2], <<>>)
    [] Kind(v) = "bool" -> FloatV(IF v[2] THEN 1 ELSE 0, <<>>)
    [] Kind(v) = "float" -> v
    [] OTHER -> Err("TypeError")

\* complex(v): "re", "imj" or "re+imj", the imaginary digits optional.
cast_complex(v) ==
  CASE Kind(v) = "str" ->
         LET t == DropSign(Strip(v[2]))
             zero == <<0, <<>>>>
             one == <<1, <<>>>>
         IN
           IF t # <<>> /\ t[Len(t)] = "j"
           THEN LET u == SubSeq(t, 1, Len(t) - 1)
                    plus == IndexOf(u, "+")
                    re == SubSeq(u, 1, plus - 1)
                    im == SubSeq(u, plus + 1, Len(u))
                IN
                  IF plus = 0
                  THEN IF u = <<>> THEN ComplexV(zero, one)
                       ELSE IF IsUFloat(u) THEN ComplexV(zero, UFloatVal(u))
                       ELSE Err("ValueError")
                  ELSE IF IsUFloat(re) /\ (im = <<>> \/ IsUFloat(im))
                       THEN ComplexV(UFloatVal(re),
                                     IF im = <<>> THEN one ELSE UFloatVal(im))
                       ELSE Err("ValueError")
           ELSE IF IsUFloat(t) THEN ComplexV(UFloatVal(t), zero)
           ELSE Err("ValueError")
    [] Kind(v) = "int" -> ComplexV(<<v[2], <<>>>>, <<0, <<>>>>)
    [] Kind(v) = "bool" -> ComplexV(<<IF v[2] THEN 1 ELSE 0, <<>>>>, <<0, <<>>>>)
    [] Kind(v) = "float" -> ComplexV(<<v[2], v[3]>>, <<0, <<>>>>)
    [] OTHER -> Err("TypeError")

\* decouple's table of boolean spellings
TrueTokens ==
  {<<"1">>, <<"y", "e", "s">>, <<"t", "r", "u", "e">>, <<"o", "n">>}

FalseTokens ==
  {<<"0">>, <<"n", "o">>, <<"f", "a", "l", "s", "e">>, <<"o", "f", "f">>, <<>>}

\* decouple.Config(None)._cast_boolean: looks up str(value).lower()
cast_bool(v) ==
  LET t == LowerStr(Str(v)) IN
    IF t \in TrueTokens THEN BoolV(TRUE)
    ELSE IF t \in FalseTokens THEN BoolV(FALSE)
    ELSE Err("ValueError")

\* str(v)
cast_str(v) == StrV(Str(v))

\* str.encode(v): UTF-8, defined on str alone
cast_encode(v) ==
  IF Kind(v) = "str" THEN BytesV([k \in 1..Len(v[2]) |-> Ord(v[2][k])])
  ELSE Err("TypeError")

\* pathlib.Path(v) of a string without "/": one part, or none for "" and "."
cast_Path(v) ==
  IF Kind(v) = "str"
  THEN PathV(IF v[2] \in {<<>>, <<".">>} THEN <<>> ELSE <<v[2]>>)
  ELSE Err("TypeError")

\* Position in the base64 alphabet A-Z a-z 0-9 + / of the characters of
\* Alphabet that belong to it.
IsB64(c) == c \in Digits \cup {"+", "j", "o", "n", "O", "N", "h", "i"}

B64Index(c) ==
  CASE c \in Digits -> 52 + DigitVal[c]
    [] c = "N" -> 13 [] c = "O" -> 14 [] c = "h" -> 33 [] c = "i" -> 34
    [] c = "j" -> 35 [] c = "n" -> 39 [] c = "o" -> 40 [] c = "+" -> 62

RECURSIVE B64Bytes(_)
B64Bytes(s) ==
  IF s = <<>> THEN <<>>
  ELSE LET n == B64Index(s[1]) * 262144 + B64Index(s[2]) * 4096
                + B64Index(s[3]) * 64 + B64Index(s[4])
       IN <<n \div 65536, (n \div 256) % 256, n % 256>>
            \o B64Bytes(SubSeq(s, 5, Len(s)))

\* lambda s: base64.b64decode(str.encode(s)), the cast of the PathConfig
\* doctest: characters outside the base64 alphabet are discarded, and without
\* "=" the data must come in groups of four.
cast_b64decode(v) ==
  IF Kind(v) # "str" THEN Err("TypeError")
  ELSE LET data == SelectSeq(v[2], IsB64) IN
         IF Len(data) % 4 = 0 THEN BytesV(B64Bytes(data))
         ELSE Err("binascii.Error")

BaseApply(base, v) ==
  CASE base = "int" -> cast_int(v)
    [] base = "float" -> cast_float(v)
    [] base = "complex" -> cast_complex(v)
    [] base = "cast_bool" -> cast_bool(v)
    [] base = "str" -> cast_str(v)
    [] base = "str.encode" -> cast_encode(v)
    [] base = "Path" -> cast_Path(v)
    [] base = "b64decode" -> cast_b64decode(v)

\* The tokens shlex(value, posix=True) yields with whitespace = "," and
\* whitespace_split = True: maximal runs of characters other than ",".
RECURSIVE ShlexTokens(_, _)
ShlexTokens(s, token) ==
  IF s = <<>> THEN (IF token = <<>> THEN <<>> ELSE <<token>>)
  ELSE IF Head(s) = ","
       THEN (IF token = <<>> THEN <<>> ELSE <<token>>) \o ShlexTokens(Tail(s), <<>>)
       ELSE ShlexTokens(Tail(s), Append(token, Head(s)))

FirstErr(vs) ==
  LET bad == {k \in 1..Len(vs) : IsErr(vs[k])} IN
    IF bad = {} THEN ListV(vs)
    ELSE vs[CHOOSE k \in bad : \A m \in bad : k <= m]

\* CsvCall without the strip of each token.
CsvCall_NoStrip(base, v) ==
  CASE Kind(v) = "none" -> ListV(<<>>)
    [] Kind(v) = "str" ->
         LET tokens == ShlexTokens(v[2], <<>>) IN
           FirstErr([k \in 1..Len(tokens) |-> BaseApply(base, StrV(tokens[k]))])
    [] OTHER -> Err("AttributeError")

\* decouple.Csv(cast).__call__: cast(token.strip()) for every shlex token
CsvCall(base, v) ==
  CASE Kind(v) = "none" -> ListV(<<>>)
    [] Kind(v) = "str" ->
         LET tokens == ShlexTokens(v[2], <<>>) IN
           FirstErr([k \in 1..Len(tokens) |->
                       BaseApply(base, StrV(Strip(tokens[k])))])
    [] OTHER -> Err("AttributeError")

\* A cast function <<base, csv, maybe>>: a base cast, mapped over the tokens
\* of a decouple.Csv when csv, and wrapped by optional() when maybe.
Cast(base) == <<base, FALSE, FALSE>>
CastBase(c) == c[1]
IsCsv(c) == c[2]
IsMaybe(c) == c[3]
Csv(c) == <<CastBase(c), TRUE, IsMaybe(c)>>

\* optional(cast): the function maybe
optional(c) == <<CastBase(c), IsCsv(c), TRUE>>

\* Apply with optional.maybe testing "s is not None" instead of "s".
Apply_IsNotNone(c, v) ==
  IF IsMaybe(c) /\ v = None THEN None
  ELSE IF IsCsv(c) THEN CsvCall(CastBase(c), v)
  ELSE BaseApply(CastBase(c), v)

\* Calling a cast function on a value.
Apply(c, v) ==
  IF IsMaybe(c) /\ Falsy(v) THEN None
  ELSE IF IsCsv(c) THEN CsvCall(CastBase(c), v)
  ELSE BaseApply(CastBase(c), v)

-----------------------------------------------------------------------------
(* Type annotations and the table of casts                                 *)

\* A type annotation <<base, lists, union>>: a base type, wrapped in t.List
\* lists times, and in t.Optional when union (t.Optional of a t.Optional is
\* the same annotation).
Type(base) == <<base, 0, FALSE>>
BaseOf(type_) == type_[1]
Lists(type_) == type_[2]
IsUnionWithNone(type_) == type_[3]
List(type_) == <<BaseOf(type_), Lists(type_) + 1, IsUnionWithNone(type_)>>
Optional(type_) == <<BaseOf(type_), Lists(type_), TRUE>>

Scalars == {"int", "float", "complex", "bool", "str", "bytes"}

\* The cast default_casts gives a scalar type.
ScalarCast(base) ==
  CASE base = "int" -> Cast("int")
    [] base = "float" -> Cast("float")
    [] base = "complex" -> Cast("complex")
    [] base = "bool" -> Cast("cast_bool")
    [] base = "str" -> Cast("str")
    [] base = "bytes" -> Cast("str.encode")

\* The module-level dict default_casts: its scalar, t.List, t.Optional and
\* t.Optional[t.List] blocks.
BuiltinCasts ==
  [type_ \in {Type(b) : b \in Scalars} |-> ScalarCast(BaseOf(type_))]
  @@ [type_ \in {List(Type(b)) : b \in Scalars} |->
        Csv(ScalarCast(BaseOf(type_)))]
  @@ [type_ \in {Optional(Type(b)) : b \in Scalars} |->
        optional(ScalarCast(BaseOf(type_)))]
  @@ [type_ \in {Optional(List(Type(b))) : b \in Scalars} |->
        optional(Csv(ScalarCast(BaseOf(type_))))]

\* is_optional that recognises no annotation.
is_optional_Never(type_) == FALSE

\* is_optional(type_): a Union of two arguments, one of them NoneType
is_optional(type_) == IsUnionWithNone(type_)

\* {**default_casts, **(casts or {})}: the entries of the argument win
MergedCasts(defaults, arg) == arg @@ defaults

\* default_casts.update(casts) instead of a new dict.
ModuleCastsAfterMerge_Update(defaults, arg) == arg @@ defaults

\* What the module-level default_casts is after __init__ has merged the
\* argument into a new dict: what it was.
ModuleCastsAfterMerge(defaults, arg) == defaults

-----------------------------------------------------------------------------
(* decouple.config                                                         *)

Absent == <<"absent">>
Unset == <<"unset">>
Undefined == <<"undefined">>

\* Config that takes a missing default for None.
Config_NoRaise(store, name, cast, default) ==
  IF store[name] # Absent THEN Apply(cast, store[name])
  ELSE IF default = Undefined THEN Apply(cast, None)
  ELSE Apply(cast, default)

\* decouple.config(name, default=default, cast=cast): the value of the
\* backing store, else the default, passed through cast; without either,
\* UndefinedValueError.
Config(store, name, cast, default) ==
  IF store[name] # Absent THEN Apply(cast, store[name])
  ELSE IF default = Undefined THEN Err("UndefinedValueError")
  ELSE Apply(cast, default)

-----------------------------------------------------------------------------
(* TypedConfig.__init__                                                    *)

NoType == Type("")
NoCast == Cast("")
\* An exception: its class, and the name or the type it carries.
Raise(class, name, type_) == <<class, name, type_>>
ErrClass(e) == e[1]
ErrName(e) == e[2]
ErrType(e) == e[3]
NoError == Raise("", <<>>, NoType)

\* An entry of __annotations__.
Field(name, type_) == <<name, type_>>
FieldName(f) == f[1]
FieldType(f) == f[2]

\* A probe: a type, an argument, and what the casts of the type and of the
\* types built on it returned for the argument.
Probe(type_, arg, out) == <<type_, arg, out>>
ProbeType == probe[1]
ProbeArg == probe[2]
ProbeOut == probe[3]
NoProbe == <<NoType, None, <<>>>>

Names == {FieldName(annotations[k]) : k \in 1..Len(annotations)}

\* Ignored without the test of ignored_names.
Ignored_UnderscoreOnly(name) == Head(name) = "_"

\* name.startswith('_') or name in ignored_names
Ignored(name) == Head(name) = "_" \/ name \in ignored_names

\* hasattr(self, name): set on the instance, or assigned in the class body
HasAttr(name) == attrs[name] # Unset \/ class_attrs[name] # Unset

\* getattr(self, name)
GetAttr(name) == IF attrs[name] # Unset THEN attrs[name] ELSE class_attrs[name]

Current == annotations[idx]

InLoop == pc = "loop" /\ idx <= Len(annotations)

\* A call of the constructor: casts = {**default_casts, **(casts or {})}
Begin(c, ign) ==
  /\ pc = "idle"
  /\ pc' = "loop"
  /\ casts_arg' = c
  /\ ignored_names' = ign
  /\ casts' = MergedCasts(default_casts, c)
  /\ default_casts' = ModuleCastsAfterMerge(default_casts, c)
  /\ idx' = 1
  /\ runs' = runs + 1
  /\ UNCHANGED <<annotations, class_attrs, environ, attrs, raised, fetched,
                 used, sets, overridden, probe>>

\* if name.startswith('_') or name in ignored_names: continue
Skip ==
  /\ InLoop
  /\ Ignored(FieldName(Current))
  /\ idx' = idx + 1
  /\ UNCHANGED <<default_casts, annotations, class_attrs, environ, pc,
                 casts_arg, ignored_names, casts, attrs, raised, fetched,
                 used, sets, runs, overridden, probe>>

\* Unsupported with the cast looked up only after decouple.config has been
\* asked for the name.
Unsupported_AfterFetch ==
  /\ InLoop
  /\ ~Ignored(FieldName(Current))
  /\ FieldType(Current) \notin DOMAIN casts
  /\ pc' = "failed"
  /\ fetched' = Append(fetched, FieldName(Current))
  /\ raised' = Raise("KeyError", <<>>, FieldType(Current))
  /\ UNCHANGED <<default_casts, annotations, class_attrs, environ, casts_arg,
                 ignored_names, casts, idx, attrs, used, sets, runs,
                 overridden, probe>>

\* casts[type_] raises KeyError(type_)
Unsupported ==
  /\ InLoop
  /\ ~Ignored(FieldName(Current))
  /\ FieldType(Current) \notin DOMAIN casts
  /\ pc' = "failed"
  /\ raised' = Raise("KeyError", <<>>, FieldType(Current))
  /\ UNCHANGED <<default_casts, annotations, class_attrs, environ, casts_arg,
                 ignored_names, casts, idx, attrs, fetched, used, sets, runs,
                 overridden, probe>>

\* Populate that swallows the exception of a name and goes on to the next.
Populate_FailSoft(default) ==
  LET name == FieldName(Current)
      cast == casts[FieldType(Current)]
      value == Config(environ, name, cast, default)
  IN
    /\ fetched' = Append(fetched, name)
    /\ used' = [used EXCEPT ![name] = cast]
    /\ idx' = idx + 1
    /\ IF IsErr(value)
       THEN UNCHANGED <<attrs, sets>>
       ELSE /\ attrs' = [attrs EXCEPT ![name] = value]
            /\ sets' = [sets EXCEPT ![name] = @ + 1]
    /\ UNCHANGED <<default_casts, annotations, class_attrs, environ, pc,
                   raised, casts_arg, ignored_names, casts, runs, overridden,
                   probe>>

\* setattr(self, name, cfg(default=...)) with cfg = partial(decouple.config,
\* name, cast=casts[type_]); an exception of the call ends __init__.
Populate(default) ==
  LET name == FieldName(Current)
      cast == casts[FieldType(Current)]
      value == Config(environ, name, cast, default)
  IN
    /\ fetched' = Append(fetched, name)
    /\ used' = [used EXCEPT ![name] = cast]
    /\ IF IsErr(value)
       THEN /\ pc' = "failed"
            /\ raised' = Raise(value[2],
                                IF value[2] = "UndefinedValueError"
                                THEN name ELSE <<>>,
                                NoType)
            /\ UNCHANGED <<attrs, sets, idx>>
       ELSE /\ attrs' = [attrs EXCEPT ![name] = value]
            /\ sets' = [sets EXCEPT ![name] = @ + 1]
            /\ idx' = idx + 1
            /\ UNCHANGED <<pc, raised>>
    /\ UNCHANGED <<default_casts, annotations, class_attrs, environ,
                   casts_arg, ignored_names, casts, runs, overridden, probe>>

Resolvable == InLoop /\ ~Ignored(FieldName(Current)) /\ FieldType(Current) \in DOMAIN casts

\* if hasattr(self, name): setattr(self, name, cfg(default=getattr(self, name)))
PopulateDefault ==
  /\ Resolvable
  /\ HasAttr(FieldName(Current))
  /\ Populate(GetAttr(FieldName(Current)))

\* elif is_optional(type_): setattr(self, name, cfg(default=None))
PopulateOptional ==
  /\ Resolvable
  /\ ~HasAttr(FieldName(Current))
  /\ is_optional(FieldType(Current))
  /\ Populate(None)

\* else: setattr(self, name, cfg())
PopulateRequired ==
  /\ Resolvable
  /\ ~HasAttr(FieldName(Current))
  /\ ~is_optional(FieldType(Current))
  /\ Populate(Undefined)

\* the loop is exhausted: __init__ returns and the caller has the instance
Finish ==
  /\ pc = "loop"
  /\ idx > Len(annotations)
  /\ pc' = "done"
  /\ UNCHANGED <<default_casts, annotations, class_attrs, environ, casts_arg,
                 ignored_names, casts, idx, attrs, raised, fetched, used, sets,
                 runs, overridden, probe>>

\* The caller drops the instance (or never got one) and is about to call the
\* constructor of the same class again.
Again ==
  /\ pc \in {"done", "failed"}
  /\ runs < MaxRuns
  /\ pc' = "idle"
  /\ attrs' = [n \in Names |-> Unset]
  /\ sets' = [n \in Names |-> 0]
  /\ used' = [n \in Names |-> NoCast]
  /\ fetched' = <<>>
  /\ raised' = NoError
  /\ overridden' = overridden \cup DOMAIN casts_arg
  /\ UNCHANGED <<default_casts, annotations, class_attrs, environ, casts_arg,
                 ignored_names, casts, idx, runs, probe>>

\* casts[type_](arg) on the table a constructor call with casts_arg builds
CallCast(type_) ==
  /\ pc = "cast"
  /\ type_ \notin DOMAIN ProbeOut
  /\ type_ \in DOMAIN MergedCasts(default_casts, casts_arg)
  /\ probe' = Probe(ProbeType, ProbeArg,
       (type_ :> Apply(MergedCasts(default_casts, casts_arg)[type_], ProbeArg))
         @@ ProbeOut)
  /\ UNCHANGED <<default_casts, annotations, class_attrs, environ, pc,
                 casts_arg, ignored_names, casts, idx, attrs, raised, fetched,
                 used, sets, runs, overridden>>

-----------------------------------------------------------------------------
(* Inputs                                                                  *)

Letters == <<"A", "B", "C", "D">>

\* Raw strings of the backing store and of string literals.
RawRich ==
  { <<>>, <<"6">>, <<"0">>, <<"5", ".", "8">>, <<"3", "+", "4", "j">>,
    <<"o", "n">>, <<"O", "N">>, <<"n", "o">>, <<"h", "i">>, <<" ">>,
    <<" ", "4", ",", " ", "1", "0">>, <<"4", ",", ",", "1">>, <<"6", ",">>,
    <<",">>, <<"4", ",", " ", ",", "1">>, <<"h", "i", "h", "i">>,
    <<"2", ",", "3", ".", "6", ",", "7">> }

EnvRich ==
  {Absent} \cup {StrV(s) : s \in {<<>>, <<"6">>, <<"o", "n">>, <<"h", "i", "h", "i">>,
                                  <<" ", "4", ",", " ", "1", "0">>}}

EnvSmall == {Absent, StrV(<<"6">>), StrV(<<>>)}

LiteralsRich ==
  { Unset, StrV(<<"5", ".", "8">>), StrV(<<" ", "4", ",", " ", "1", "0">>),
    StrV(<<>>), IntV(0), IntV(5), FloatV(5, <<"8">>), BoolV(FALSE),
    BytesV(<<104, 105>>) }

LiteralsSmall == {Unset, StrV(<<"6">>), IntV(0)}

TypesRich ==
  DOMAIN BuiltinCasts
  \cup {Type("Path"), Optional(Type("Path")), List(Type("Path")),
        List(List(Type("int")))}

TypesSmall == {Type("int"), Optional(Type("int")), Type("Path")}

\* casts arguments: None, and dicts like that of the PathConfig doctest
NoCasts == [type_ \in {} |-> NoCast]

CastsArgs ==
  { NoCasts,
    Type("Path") :> Cast("Path"),
    Type("bytes") :> Cast("b64decode"),
    (Type("Path") :> Cast("Path")) @@ (Type("bytes") :> Cast("b64decode")),
    Optional(Type("Path")) :> Cast("Path"),
    Optional(Type("Path")) :> optional(Cast("Path")) }

CastsArgsSmall == {NoCasts, Type("Path") :> Cast("Path")}

IgnoredArgs == {{}, {<<"B">>}}

\* A class of n annotated names, the k-th being Letters[k] with or without a
\* leading underscore, and a backing store.
InitWith(lengths, types, literals, stored) ==
  /\ \E n \in lengths :
       \E under \in [1..n -> BOOLEAN], ty \in [1..n -> types],
          lit \in [1..n -> literals], env \in [1..n -> stored] :
         LET nameOf(k) == IF under[k] THEN <<"_", Letters[k]>> ELSE <<Letters[k]>>
             names == {nameOf(k) : k \in 1..n}
             pos(nm) == CHOOSE k \in 1..n : nameOf(k) = nm
         IN
           /\ annotations = [k \in 1..n |-> Field(nameOf(k), ty[k])]
           /\ class_attrs = [nm \in names |-> lit[pos(nm)]]
           /\ environ = [nm \in names |-> env[pos(nm)]]
           /\ attrs = [nm \in names |-> Unset]
           /\ sets = [nm \in names |-> 0]
           /\ used = [nm \in names |-> NoCast]
  /\ default_casts = BuiltinCasts
  /\ pc = "idle"
  /\ casts_arg = NoCasts
  /\ ignored_names = {}
  /\ casts = NoCasts
  /\ idx = 1
  /\ raised = NoError
  /\ fetched = <<>>
  /\ runs = 0
  /\ overridden = {}
  /\ probe = NoProbe

\* Classes of up to MaxFields names over a few types.
Init == InitWith(1..MaxFields, TypesSmall, LiteralsSmall, EnvSmall)

\* Classes of one name over every type, literal and stored string.
InitField == InitWith({1}, TypesRich, LiteralsRich, EnvRich)

\* Classes of one name, constructed several times.
InitSeq == InitWith({1}, TypesRich, LiteralsSmall, EnvSmall)

\* One argument for the casts of one type and of the types built on it.
InitCast ==
  /\ \E b \in Scalars, c \in CastsArgs, s \in {None} \cup {StrV(r) : r \in RawRich} :
       /\ probe = Probe(Type(b), s, <<>>)
       /\ casts_arg = c
  /\ default_casts = BuiltinCasts
  /\ pc = "cast"
  /\ annotations = <<>>
  /\ class_attrs = <<>>
  /\ environ = <<>>
  /\ attrs = <<>>
  /\ sets = <<>>
  /\ used = <<>>
  /\ ignored_names = {}
  /\ casts = NoCasts
  /\ idx = 1
  /\ raised = NoError
  /\ fetched = <<>>
  /\ runs = 0
  /\ overridden = {}

Step ==
  \/ Skip
  \/ Unsupported
  \/ PopulateDefault
  \/ PopulateOptional
  \/ PopulateRequired
  \/ Finish

Next ==
  \/ \E c \in CastsArgsSmall, ign \in IgnoredArgs : Begin(c, ign)
  \/ Step

NextField ==
  \/ \E c \in CastsArgs, ign \in IgnoredArgs : Begin(c, ign)
  \/ Step

NextSeq ==
  \/ \E c \in CastsArgs : Begin(c, {})
  \/ Step
  \/ Again

NextCast ==
  \E type_ \in {ProbeType, List(ProbeType), Optional(ProbeType),
                Optional(List(ProbeType))} : CallCast(type_)

Spec == Init /\ [][Next]_vars
SpecField == InitField /\ [][NextField]_vars
SpecSeq == InitSeq /\ [][NextSeq]_vars
SpecCast == InitCast /\ [][NextCast]_vars

-----------------------------------------------------------------------------
(* Properties                                                              *)

Positions == 1..Len(annotations)
NameAt(k) == FieldName(annotations[k])
TypeAt(k) == FieldType(annotations[k])
Started == pc \in {"loop", "done", "failed"}

\* what the properties call an ignored name, a literal default, a stored
\* value and an Optional annotation
IgnoredName(n) == Head(n) = "_" \/ n \in ignored_names
Declared(k) == ~IgnoredName(NameAt(k))
Literal(k) == class_attrs[NameAt(k)]
Stored(k) == environ[NameAt(k)]
OptionalType(type_) == type_[3]
Required(k) == Literal(k) = Unset /\ ~OptionalType(TypeAt(k))

\* the outcome of position k once the loop is through with it: the value set,
\* or the class of the exception that ended the constructor there
Settled(k) == (pc = "done" \/ idx > k) \/ (pc = "failed" /\ idx = k)
Outcome(k) ==
  IF pc = "failed" /\ idx = k THEN Err(ErrClass(raised)) ELSE attrs[NameAt(k)]

\* C1 as claimed: when construction ends, either every declared, non-ignored
\* field has been set exactly once, or construction has failed and no field
\* of the instance has been populated.
C1_AllOrNothing ==
  /\ pc = "done" =>
       \A k \in Positions : Declared(k) =>
         sets[NameAt(k)] = 1 /\ attrs[NameAt(k)] # Unset
  /\ pc = "failed" => \A k \in Positions : sets[NameAt(k)] = 0

\* C1 as amended: construction ends either with every declared, non-ignored
\* field set exactly once and no exception, or with an exception (so that no
\* instance reaches the caller); the instance under construction then holds
\* a value for exactly the non-ignored fields declared before the failing
\* one.  No field is ever set twice.
C1_NoInstanceOnFailure ==
  /\ \A k \in Positions : sets[NameAt(k)] <= 1
  /\ pc = "done" =>
       /\ raised = NoError
       /\ \A k \in Positions :
            /\ Declared(k) => sets[NameAt(k)] = 1 /\ attrs[NameAt(k)] # Unset
            /\ ~Declared(k) => sets[NameAt(k)] = 0
  /\ pc = "failed" =>
       /\ raised # NoError
       /\ idx \in Positions
       /\ \A k \in Positions :
            sets[NameAt(k)] = IF k < idx /\ Declared(k) THEN 1 ELSE 0
  /\ pc \in {"idle", "loop"} => raised = NoError

\* a construction that failed at its second field with the first one set
C1_Witness ==
  /\ pc = "failed"
  /\ idx = 2
  /\ sets[NameAt(1)] = 1
  /\ sets[NameAt(2)] = 0

PosOf(n) == CHOOSE k \in Positions : NameAt(k) = n

InDeclarationOrder ==
  \A a, b \in 1..Len(fetched) : a < b => PosOf(fetched[a]) < PosOf(fetched[b])

\* C2 as claimed: a declared, non-ignored field without literal default, of
\* a non-optional type and without backing-store entry makes construction
\* fail with UndefinedValueError naming it; fields are processed in
\* declaration order, the error is that of the first failing field, and no
\* field declared after it is fetched or set.
C2_RequiredMissingRaises ==
  Started =>
    /\ InDeclarationOrder
    /\ \A k \in Positions :
         (Declared(k) /\ Required(k) /\ Stored(k) = Absent) =>
           /\ pc # "done" /\ idx <= k
           /\ (pc = "failed" /\ idx = k) =>
                /\ ErrClass(raised) = "UndefinedValueError"
                /\ ErrName(raised) = NameAt(k)
           /\ \A m \in Positions : m > k =>
                NameAt(m) \notin Range(fetched) /\ sets[NameAt(m)] = 0

\* C2 as amended: the same, for a field whose type has a cast in the table
\* of the call (a type without one fails with KeyError before the fetch).
C2_RequiredMissingRaisesIfCastable ==
  Started =>
    /\ InDeclarationOrder
    /\ \A k \in Positions :
         (Declared(k) /\ Required(k) /\ Stored(k) = Absent
            /\ TypeAt(k) \in DOMAIN casts) =>
           /\ pc # "done" /\ idx <= k
           /\ (pc = "failed" /\ idx = k) =>
                /\ ErrClass(raised) = "UndefinedValueError"
                /\ ErrName(raised) = NameAt(k)
                /\ \A j \in Positions : (j < k /\ Declared(j)) => sets[NameAt(j)] = 1
           /\ \A m \in Positions : m > k =>
                NameAt(m) \notin Range(fetched) /\ sets[NameAt(m)] = 0

\* two required fields without entry: the constructor failed at the first
C2_Witness ==
  /\ pc = "failed"
  /\ Len(annotations) = 2
  /\ idx = 1
  /\ \A k \in Positions :
       Declared(k) /\ Required(k) /\ Stored(k) = Absent /\ TypeAt(k) \in DOMAIN casts
  /\ ErrClass(raised) = "UndefinedValueError"
  /\ ErrName(raised) = NameAt(1)
  /\ fetched = <<NameAt(1)>>

\* the cast the table of the running call holds for position k
CastAt(k) == casts[TypeAt(k)]
Castable(k) == Started /\ TypeAt(k) \in DOMAIN casts

\* a literal that is a value of the scalar type, Optional or not, it is
\* declared with
OfDeclaredType(k) ==
  /\ Lists(TypeAt(k)) = 0
  /\ Kind(Literal(k)) = BaseOf(TypeAt(k))

\* C3: a declared, non-ignored field with a literal default (a string, or a
\* value of the declared type) resolves, without backing-store entry, to the
\* literal (cast when the literal is a string), and with an entry to the cast
\* of the stored value.
C3_LiteralOrStored ==
  \A k \in Positions :
    (Castable(k) /\ Settled(k) /\ Declared(k) /\ Literal(k) # Unset
       /\ (Kind(Literal(k)) = "str" \/ OfDeclaredType(k))) =>
      Outcome(k) =
        IF Stored(k) # Absent THEN Apply(CastAt(k), Stored(k))
        ELSE IF Kind(Literal(k)) = "str" THEN Apply(CastAt(k), Literal(k))
        ELSE Literal(k)

\* C4: a non-string literal default of a declared, non-ignored field without
\* backing-store entry is the resolved value, uncast (stated for literals of
\* the declared type, such as 0 for Optional[int] and b'hi' for bytes).
C4_NonStringLiteralAsIs ==
  \A k \in Positions :
    (Castable(k) /\ Settled(k) /\ Declared(k) /\ Literal(k) # Unset
       /\ Kind(Literal(k)) # "str" /\ OfDeclaredType(k)
       /\ Stored(k) = Absent) =>
      Outcome(k) = Literal(k)

C6_IgnoredUntouched ==
  \A k \in Positions : IgnoredName(NameAt(k)) =>
    /\ NameAt(k) \notin Range(fetched)
    /\ used[NameAt(k)] = NoCast
    /\ sets[NameAt(k)] = 0
    /\ attrs[NameAt(k)] = Unset
    /\ GetAttr(NameAt(k)) = Literal(k)
    /\ ~(pc = "failed" /\ idx = k)

\* a construction that returned although a name listed in ignored_names has
\* a type without cast, a stored value and a literal
C6_Witness ==
  /\ pc = "done"
  /\ Len(annotations) = 2
  /\ NameAt(2) \in ignored_names
  /\ TypeAt(2) \notin DOMAIN casts
  /\ Stored(2) # Absent
  /\ Literal(2) # Unset
  /\ Head(NameAt(1)) = "_"
  /\ TypeAt(1) \notin DOMAIN casts

\* C7: a casts argument changes the cast of exactly the types it names: a
\* field of such a type is cast with the argument's function, every other
\* field with the built-in one, and default_casts itself stays as built, so
\* that a later call without argument casts with the built-in functions.
C7_OverrideOnlyThatType ==
  /\ default_casts = BuiltinCasts
  /\ \A k \in Positions : NameAt(k) \in Range(fetched) =>
       /\ used[NameAt(k)] =
            IF TypeAt(k) \in DOMAIN casts_arg THEN casts_arg[TypeAt(k)]
            ELSE BuiltinCasts[TypeAt(k)]
       /\ (Settled(k) /\ TypeAt(k) \notin DOMAIN casts_arg) =>
            Outcome(k) = Config(environ, NameAt(k), BuiltinCasts[TypeAt(k)],
                                IF Literal(k) # Unset THEN Literal(k)
                                ELSE IF OptionalType(TypeAt(k)) THEN None
                                ELSE Undefined)

\* a second call, without casts, after one that overrode the cast of bytes:
\* the stored string is encoded, not decoded
C7_Witness ==
  /\ runs = 2
  /\ pc = "done"
  /\ casts_arg = NoCasts
  /\ Type("bytes") \in overridden
  /\ TypeAt(1) = Type("bytes")
  /\ Stored(1) = StrV(<<"6">>)
  /\ attrs[NameAt(1)] = BytesV(<<54>>)

\* the table a call with casts_arg resolves types in
Table == casts_arg @@ BuiltinCasts
Probed(type_) == type_ \in DOMAIN ProbeOut

\* C8 as claimed: for a scalar or list type T and any table, the cast of
\* Optional<T> returns None for an absent input and, for a present string,
\* what the cast the same table holds for T returns.
C8_OptionalDelegates ==
  \A T \in {ProbeType, List(ProbeType)} :
    (Probed(T) /\ Probed(Optional(T))) =>
      /\ ProbeArg = None => ProbeOut[Optional(T)] = None
      /\ Kind(ProbeArg) = "str" => ProbeOut[Optional(T)] = ProbeOut[T]

\* C8 as amended: for a table in which the caller overrides neither T nor
\* Optional<T>, the cast of Optional<T> returns None for an absent or empty
\* input and, for a non-empty string, what the cast of T returns.
C8_OptionalDelegatesNonEmpty ==
  \A T \in {ProbeType, List(ProbeType)} :
    (Probed(T) /\ Probed(Optional(T))
       /\ T \notin DOMAIN casts_arg /\ Optional(T) \notin DOMAIN casts_arg) =>
      /\ (ProbeArg = None \/ ProbeArg = StrV(<<>>)) => ProbeOut[Optional(T)] = None
      /\ (Kind(ProbeArg) = "str" /\ ProbeArg # StrV(<<>>)) =>
           ProbeOut[Optional(T)] = ProbeOut[T]

\* Optional[List[float]] and List[float] agree on "2,3.6,7", a list of three
C8_Witness ==
  /\ ProbeType = Type("float")
  /\ ProbeArg = StrV(<<"2", ",", "3", ".", "6", ",", "7">>)
  /\ Probed(List(ProbeType)) /\ Probed(Optional(List(ProbeType)))
  /\ ProbeOut[Optional(List(ProbeType))] =
       ListV(<<FloatV(2, <<>>), FloatV(3, <<"6">>), FloatV(7, <<>>)>>)

\* the pieces between the commas of a string, the empty ones included
RECURSIVE Pieces(_)
Pieces(s) ==
  LET comma == IndexOf(s, ",") IN
    IF comma = 0 THEN <<s>>
    ELSE <<SubSeq(s, 1, comma - 1)>> \o Pieces(SubSeq(s, comma + 1, Len(s)))

NonEmpty(s) == s # <<>>

\* the list of the casts of the trimmed pieces, or the first exception
Elementwise(cast, pieces) ==
  FirstErr([k \in 1..Len(pieces) |-> Apply(cast, StrV(Strip(pieces[k])))])

\* C9 as claimed: for a scalar type T and any table, the cast of List<T>
\* splits the string on commas, trims each element and applies to it the cast
\* the same table holds for T, in input order: one result per element
\* (stated for non-empty strings).
C9_ListElementwise ==
  (Kind(ProbeArg) = "str" /\ ProbeArg # StrV(<<>>) /\ Probed(List(ProbeType))) =>
    ProbeOut[List(ProbeType)] = Elementwise(Table[ProbeType], Pieces(ProbeArg[2]))

\* C9 as amended: for a table in which the caller overrides neither T nor
\* List<T>, and a string without quote, backslash and "#", the cast of
\* List<T> splits on commas, drops the pieces of length zero, trims each
\* other piece and applies the cast of T to it, in input order: one result
\* per piece of non-zero length, or the first exception of a cast.
C9_ListElementwiseNonEmptyPieces ==
  (Kind(ProbeArg) = "str" /\ Probed(List(ProbeType))
     /\ ProbeType \notin DOMAIN casts_arg
     /\ List(ProbeType) \notin DOMAIN casts_arg) =>
    /\ ProbeOut[List(ProbeType)] =
         Elementwise(Table[ProbeType], SelectSeq(Pieces(ProbeArg[2]), NonEmpty))
    /\ ~IsErr(ProbeOut[List(ProbeType)]) =>
         Len(ProbeOut[List(ProbeType)][2]) =
           Len(SelectSeq(Pieces(ProbeArg[2]), NonEmpty))

\* List[str] of " 4, 10": two trimmed elements in input order
C9_Witness ==
  /\ ProbeType = Type("str")
  /\ ProbeArg = StrV(<<" ", "4", ",", " ", "1", "0">>)
  /\ Probed(List(ProbeType))
  /\ ProbeOut[List(ProbeType)] = ListV(<<StrV(<<"4">>), StrV(<<"1", "0">>)>>)

\* C10: a declared, non-ignored field whose type is neither in default_casts
\* nor in the casts argument fails the construction with the KeyError of the
\* table (the code's unsupported-type error), which carries the type, before
\* the name is fetched, whatever its literal and its backing-store entry.
C10_UnsupportedTypeRaises ==
  \A k \in Positions :
    (Started /\ Declared(k) /\ TypeAt(k) \notin DOMAIN BuiltinCasts
       /\ TypeAt(k) \notin DOMAIN casts_arg) =>
      /\ pc # "done" /\ idx <= k
      /\ Settled(k) => raised = Raise("KeyError", <<>>, TypeAt(k))
      /\ NameAt(k) \notin Range(fetched)
      /\ used[NameAt(k)] = NoCast
      /\ sets[NameAt(k)] = 0

\* List[Path] with only Path registered, a literal and a stored value
C10_Witness ==
  /\ pc = "failed"
  /\ TypeAt(1) = List(Type("Path"))
  /\ Type("Path") \in DOMAIN casts_arg
  /\ Literal(1) # Unset
  /\ Stored(1) # Absent
  /\ ErrClass(raised) = "KeyError"
  /\ ErrType(raised) = List(Type("Path"))
  /\ fetched = <<>>

====
